---- MODULE Spec2Model ----
(***************************************************************************)
(* Model of internal/config/config_type.go (the key registry, the two      *)
(* validators and the blank YAML document), of the Config interface's      *)
(* Get / Set / UnsetHost / Hosts operations, and of the root command's     *)
(* lazyLoadedHTTPClient.Do.                                                *)
(***************************************************************************)
EXTENDS Integers, Sequences, FiniteSets, TLC

VARIABLES
    \* ---- application of the registry's pure functions
    fn,          \* the function applied last ("none" before any call)
    key,         \* the key argument
    value,       \* the value argument
    err,         \* the error the last validator call returned
    root,        \* the *yaml.Node the last NewBlankRoot call returned
    \* ---- the Config object
    cfg,         \* fileConfig.documentRoot: the YAML document node
    last,        \* the last Config method call: its arguments and results
    \* ---- lazyLoadedHTTPClient
    httpClient,  \* l.httpClient (Nil or the identity of a constructed client)
    readers,     \* goroutines holding httpClientMu shared (RLock)
    writer,      \* goroutine holding httpClientMu exclusively (Lock), or NoProc
    pc,          \* per goroutine: the line of Do it is about to execute
    local,       \* per goroutine: the local variable httpClient of Do
    lerr,        \* per goroutine: the local variable err of Do
    visible,     \* per goroutine: the writes to l.httpClient an unsynchronised
                 \* read by it may observe (Go memory model)
    built,       \* number of successful factory.HTTPClient() calls
    calls,       \* per goroutine: number of Do calls started
    access       \* the last access to the field l.httpClient

regVars  == <<fn, key, value, err, root>>
cfgVars  == <<cfg, last>>
httpVars == <<httpClient, readers, writer, pc, local, lerr, visible, built, calls, access>>
vars     == <<regVars, cfgVars, httpVars>>

(***************************************************************************)
(* Go values                                                               *)
(***************************************************************************)
\* a nil []string and a non-nil one are different values (validValues == nil)
NilSlice == [isNil |-> TRUE, elems |-> <<>>]
StringSlice(s) == [isNil |-> FALSE, elems |-> s]

NilError == [type |-> "nil", msg |-> "", ValidValues |-> NilSlice]
ErrorString(m) == [type |-> "errorString", msg |-> m, ValidValues |-> NilSlice]
InvalidValueError(vv) ==
    [type |-> "InvalidValueError", msg |-> "invalid value", ValidValues |-> vv]

(***************************************************************************)
(* The key registry                                                        *)
(***************************************************************************)
ConfigOption(k, d, dv, av) ==
    [Key |-> k, Description |-> d, DefaultValue |-> dv, AllowedValues |-> av]

\* the protocol default is misspelt
configOptionsBadDefault ==
    << ConfigOption("protocol", "the protocol to use for git clone and push operations",
                    "http", StringSlice(<<"https", "ssh">>)),
       ConfigOption("editor", "the text editor program to use for authoring text",
                    "", NilSlice),
       ConfigOption("prompt", "toggle interactive prompting in the terminal",
                    "enabled", StringSlice(<<"enabled", "disabled">>)),
       ConfigOption("pager", "the terminal pager program to send standard output to",
                    "", NilSlice),
       ConfigOption("http_unix_socket",
                    "the path to a unix socket through which to make HTTP connection",
                    "", NilSlice),
       ConfigOption("browser", "the web browser to use for opening URLs",
                    "", NilSlice),
       ConfigOption("default_hostname",
                    "the default hostname to use for commands that require a hostname",
                    "", NilSlice) >>

configOptions ==
    << ConfigOption("protocol", "the protocol to use for git clone and push operations",
                    "https", StringSlice(<<"https", "ssh">>)),
       ConfigOption("editor", "the text editor program to use for authoring text",
                    "", NilSlice),
       ConfigOption("prompt", "toggle interactive prompting in the terminal",
                    "enabled", StringSlice(<<"enabled", "disabled">>)),
       ConfigOption("pager", "the terminal pager program to send standard output to",
                    "", NilSlice),
       ConfigOption("http_unix_socket",
                    "the path to a unix socket through which to make HTTP connection",
                    "", NilSlice),
       ConfigOption("browser", "the web browser to use for opening URLs",
                    "", NilSlice),
       ConfigOption("default_hostname",
                    "the default hostname to use for commands that require a hostname",
                    "", NilSlice) >>

ConfigOptions == configOptions

\* for _, configKey := range configOptions { if key == configKey.Key { return nil } }
RECURSIVE ValidateKeyFrom(_, _)
ValidateKeyFrom(k, i) ==
    IF i > Len(configOptions) THEN ErrorString("invalid key")
    ELSE IF k = configOptions[i].Key THEN NilError
    ELSE ValidateKeyFrom(k, i + 1)

\* the loop starts at the second option
ValidateKeySkipFirst(k) == ValidateKeyFrom(k, 2)

ValidateKey(k) == ValidateKeyFrom(k, 1)

\* for _, v := range configOptions { if v.Key == key { validValues = v.AllowedValues; break } }
RECURSIVE FindValidValues(_, _)
FindValidValues(k, i) ==
    IF i > Len(configOptions) THEN NilSlice
    ELSE IF configOptions[i].Key = k THEN configOptions[i].AllowedValues
    ELSE FindValidValues(k, i + 1)

\* for _, v := range validValues { if v == value { return nil } }
RECURSIVE ContainsFrom(_, _, _)
ContainsFrom(s, v, i) ==
    IF i > Len(s) THEN FALSE
    ELSE IF s[i] = v THEN TRUE
    ELSE ContainsFrom(s, v, i + 1)

\* only the first allowed value is compared
ValidateValueFirstOnly(k, v) ==
    LET validValues == FindValidValues(k, 1) IN
    IF validValues.isNil THEN NilError
    ELSE IF Len(validValues.elems) > 0 /\ validValues.elems[1] = v THEN NilError
    ELSE InvalidValueError(validValues)

\* an empty value is accepted without looking at the allowed values
ValidateValueAcceptsEmpty(k, v) ==
    LET validValues == FindValidValues(k, 1) IN
    IF validValues.isNil \/ v = "" THEN NilError
    ELSE IF ContainsFrom(validValues.elems, v, 1) THEN NilError
    ELSE InvalidValueError(validValues)

ValidateValue(k, v) ==
    LET validValues == FindValidValues(k, 1) IN
    IF validValues.isNil THEN NilError
    ELSE IF ContainsFrom(validValues.elems, v, 1) THEN NilError
    ELSE InvalidValueError(validValues)

(***************************************************************************)
(* YAML nodes and the blank document                                       *)
(***************************************************************************)
Node(kind, val, comment, content) ==
    [Kind |-> kind, Value |-> val, HeadComment |-> comment, Content |-> content]
ScalarNode(val) == Node("ScalarNode", val, "", <<>>)
KeyNode(comment, val) == Node("ScalarNode", val, comment, <<>>)
MappingNode(content) == Node("MappingNode", "", "", content)
DocumentNode(content) == Node("DocumentNode", "", "", content)
NilNode == Node("nil", "", "", <<>>)

\* the prompt value is left blank
NewBlankRootBlankPrompt ==
    DocumentNode(<< MappingNode(<<
        KeyNode("What protocol to use when performing git operations. Supported values: https",
                "protocol"),
        ScalarNode("https"),
        KeyNode("What editor inst should run. If blank, will refer to environment.",
                "editor"),
        ScalarNode(""),
        KeyNode("When to interactively prompt. This is a global config that cannot be overridden by hostname. Supported values: enabled, disabled",
                "prompt"),
        ScalarNode(""),
        KeyNode("A pager program to send command output to, e.g. \"less\". Set the value to \"cat\" to disable the pager.",
                "pager"),
        ScalarNode(""),
        KeyNode("The path to a unix socket through which send HTTP connections. If blank, HTTP traffic will be handled by net/http.DefaultTransport.",
                "http_unix_socket"),
        ScalarNode(""),
        KeyNode("What web browser inst should use when opening URLs. If blank, will refer to environment.",
                "browser"),
        ScalarNode(""),
        KeyNode("The default hostname to use for commands that require a hostname, e.g. inst instance list.",
                "default_hostname"),
        ScalarNode("")
    >>) >>)

NewBlankRoot ==
    DocumentNode(<< MappingNode(<<
        KeyNode("What protocol to use when performing git operations. Supported values: https",
                "protocol"),
        ScalarNode("https"),
        KeyNode("What editor inst should run. If blank, will refer to environment.",
                "editor"),
        ScalarNode(""),
        KeyNode("When to interactively prompt. This is a global config that cannot be overridden by hostname. Supported values: enabled, disabled",
                "prompt"),
        ScalarNode("enabled"),
        KeyNode("A pager program to send command output to, e.g. \"less\". Set the value to \"cat\" to disable the pager.",
                "pager"),
        ScalarNode(""),
        KeyNode("The path to a unix socket through which send HTTP connections. If blank, HTTP traffic will be handled by net/http.DefaultTransport.",
                "http_unix_socket"),
        ScalarNode(""),
        KeyNode("What web browser inst should use when opening URLs. If blank, will refer to environment.",
                "browser"),
        ScalarNode(""),
        KeyNode("The default hostname to use for commands that require a hostname, e.g. inst instance list.",
                "default_hostname"),
        ScalarNode("")
    >>) >>)

(***************************************************************************)
(* Config Map: an ordered mapping over one MappingNode (alternating key    *)
(* and value children)                                                     *)
(***************************************************************************)
\* index of the key node whose Value is k, scanning the pairs in order; 0 if none
RECURSIVE FindEntryFrom(_, _, _)
FindEntryFrom(content, k, i) ==
    IF i > Len(content) THEN 0
    ELSE IF content[i].Value = k THEN i
    ELSE FindEntryFrom(content, k, i + 2)

FindEntry(m, k) == FindEntryFrom(m.Content, k, 1)

GetStringValue(m, k) ==
    LET i == FindEntry(m, k) IN
    IF i = 0 THEN [found |-> FALSE, value |-> ""]
    ELSE [found |-> TRUE, value |-> m.Content[i + 1].Value]

\* replaces the value node's value in place, or appends a new key/value pair
SetStringValue(m, k, v) ==
    LET i == FindEntry(m, k) IN
    IF i = 0 THEN [m EXCEPT !.Content = @ \o << ScalarNode(k), ScalarNode(v) >>]
    ELSE [m EXCEPT !.Content[i + 1].Value = v]

\* replaces the value node of k by node n, or appends the pair
SetEntry(m, k, n) ==
    LET i == FindEntry(m, k) IN
    IF i = 0 THEN [m EXCEPT !.Content = @ \o << ScalarNode(k), n >>]
    ELSE [m EXCEPT !.Content[i + 1] = n]

RemoveEntry(m, k) ==
    LET i == FindEntry(m, k) IN
    IF i = 0 THEN m
    ELSE [m EXCEPT !.Content = SubSeq(@, 1, i - 1) \o SubSeq(@, i + 2, Len(@))]

\* the nested mapping at k: [found, node]; an empty mapping when absent
SubMap(m, k) ==
    LET i == FindEntry(m, k) IN
    IF i # 0 /\ m.Content[i + 1].Kind = "MappingNode"
    THEN [found |-> TRUE, node |-> m.Content[i + 1]]
    ELSE [found |-> FALSE, node |-> MappingNode(<<>>)]

RECURSIVE KeysFrom(_, _)
KeysFrom(content, i) ==
    IF i > Len(content) THEN <<>>
    ELSE IF content[i].Value = "hosts" THEN KeysFrom(content, i + 2)
    ELSE << content[i].Value >> \o KeysFrom(content, i + 2)

Keys(m) == KeysFrom(m.Content, 1)

(***************************************************************************)
(* Host-aware Config                                                       *)
(***************************************************************************)
\* fileConfig{ConfigMap: ConfigMap{Root: root.Content[0]}, documentRoot: root}
NewConfig(r) == r
NewBlankConfig == NewConfig(NewBlankRoot)

\* a stored document of the backing format that holds one host and no global key
\*   hosts:
\*       h1:
\*           user: u1
NewFromString ==
    NewConfig(DocumentNode(<< MappingNode(<<
        ScalarNode("hosts"),
        MappingNode(<< ScalarNode("h1"),
                       MappingNode(<< ScalarNode("user"), ScalarNode("u1") >>) >>)
    >>) >>))

Global(c) == c.Content[1]

NotFoundError == ErrorString("not found")

RECURSIVE DefaultFrom(_, _)
DefaultFrom(k, i) ==
    IF i > Len(configOptions) THEN [found |-> FALSE, value |-> ""]
    ELSE IF configOptions[i].Key = k
         THEN [found |-> TRUE, value |-> configOptions[i].DefaultValue]
    ELSE DefaultFrom(k, i + 1)

defaultFor(k) == DefaultFrom(k, 1)

GetWithSource(c, hostname, k) ==
    LET hosts  == SubMap(Global(c), "hosts")
        host   == SubMap(hosts.node, hostname)
        hv     == GetStringValue(host.node, k)
        gv     == GetStringValue(Global(c), k)
        dv     == defaultFor(k)
    IN  IF hostname # "" /\ hosts.found /\ host.found /\ hv.found
        THEN [value |-> hv.value, source |-> hostname, err |-> NilError]
        ELSE IF gv.found
        THEN [value |-> gv.value, source |-> "default", err |-> NilError]
        ELSE IF dv.found
        THEN [value |-> dv.value, source |-> "registry", err |-> NilError]
        ELSE [value |-> "", source |-> "", err |-> NotFoundError]

Get(c, hostname, k) ==
    LET r == GetWithSource(c, hostname, k) IN [value |-> r.value, err |-> r.err]

Hosts(c) == Keys(SubMap(Global(c), "hosts").node)

\* the document after Set, and the error Set returns
Set(c, hostname, k, v) ==
    LET kerr == ValidateKey(k)
        verr == ValidateValue(k, v)
        hosts == SubMap(Global(c), "hosts").node
        host  == SubMap(hosts, hostname).node
        host2 == SetStringValue(host, k, v)
        hosts2 == SetEntry(hosts, hostname, host2)
    IN  IF kerr # NilError THEN [cfg |-> c, err |-> kerr]
        ELSE IF verr # NilError THEN [cfg |-> c, err |-> verr]
        ELSE IF hostname = ""
        THEN [cfg |-> [c EXCEPT !.Content[1] = SetStringValue(@, k, v)],
              err |-> NilError]
        ELSE [cfg |-> [c EXCEPT !.Content[1] = SetEntry(@, "hosts", hosts2)],
              err |-> NilError]

UnsetHost(c, hostname) ==
    LET hosts == SubMap(Global(c), "hosts") IN
    IF ~hosts.found \/ FindEntry(hosts.node, hostname) = 0 THEN c
    ELSE [c EXCEPT !.Content[1] = SetEntry(@, "hosts", RemoveEntry(hosts.node, hostname))]

(***************************************************************************)
(* lazyLoadedHTTPClient                                                    *)
(***************************************************************************)
NumProcs == 2
MaxCalls == 2

Procs == 1 .. NumProcs
NoProc == 0
Nil == 0

\* how goroutine g holds httpClientMu
HeldMode(g) ==
    IF writer = g THEN "exclusive"
    ELSE IF g \in readers THEN "shared"
    ELSE "none"

FieldAccess(g, op) == [proc |-> g, op |-> op, mode |-> HeldMode(g)]

\* a goroutine calls l.Do(req)
Call(g) ==
    /\ pc[g] = "idle"
    /\ calls[g] < MaxCalls
    /\ calls' = [calls EXCEPT ![g] = @ + 1]
    /\ pc' = [pc EXCEPT ![g] = "L316"]
    /\ UNCHANGED <<httpClient, readers, writer, local, lerr, visible, built, access>>
    /\ UNCHANGED <<regVars, cfgVars>>

\* l.httpClientMu.RLock(): blocks while a writer holds the mutex; acquiring it
\* orders every earlier Unlock before g
RLock(g) ==
    /\ pc[g] = "L316"
    /\ writer = NoProc
    /\ readers' = readers \cup {g}
    /\ visible' = [visible EXCEPT ![g] = {httpClient}]
    /\ pc' = [pc EXCEPT ![g] = "L317"]
    /\ UNCHANGED <<httpClient, writer, local, lerr, built, calls, access>>
    /\ UNCHANGED <<regVars, cfgVars>>

\* httpClient := l.httpClient
ReadClient(g) ==
    /\ pc[g] = "L317"
    /\ \E c \in visible[g] : local' = [local EXCEPT ![g] = c]
    /\ access' = FieldAccess(g, "read")
    /\ pc' = [pc EXCEPT ![g] = "L318"]
    /\ UNCHANGED <<httpClient, readers, writer, lerr, visible, built, calls>>
    /\ UNCHANGED <<regVars, cfgVars>>

\* l.httpClientMu.RUnlock(); if httpClient == nil { var err error
RUnlock(g) ==
    /\ pc[g] = "L318"
    /\ readers' = readers \ {g}
    /\ lerr' = [lerr EXCEPT ![g] = "nil"]
    /\ pc' = [pc EXCEPT ![g] = IF local[g] = Nil THEN "L322" ELSE "L330"]
    /\ UNCHANGED <<httpClient, writer, local, visible, built, calls, access>>
    /\ UNCHANGED <<regVars, cfgVars>>

\* l.httpClientMu.Lock(): blocks while any goroutine holds the mutex
Lock(g) ==
    /\ pc[g] = "L322"
    /\ writer = NoProc
    /\ readers = {}
    /\ writer' = g
    /\ visible' = [visible EXCEPT ![g] = {httpClient}]
    /\ pc' = [pc EXCEPT ![g] = "L323"]
    /\ UNCHANGED <<httpClient, readers, local, lerr, built, calls, access>>
    /\ UNCHANGED <<regVars, cfgVars>>

\* l.httpClient, err = l.factory.HTTPClient(): the factory returns a new client and
\* a nil error, or (nil, err) as bareHTTPClient does when the config cannot be read
Construct(g) ==
    /\ pc[g] = "L323"
    /\ \E ok \in BOOLEAN :
         LET c == IF ok THEN built + 1 ELSE Nil IN
         /\ httpClient' = c
         /\ built' = IF ok THEN built + 1 ELSE built
         /\ lerr' = [lerr EXCEPT ![g] = IF ok THEN "nil" ELSE "error"]
         /\ visible' = [p \in Procs |-> IF p = g THEN {c} ELSE visible[p] \cup {c}]
    /\ access' = FieldAccess(g, "write")
    /\ pc' = [pc EXCEPT ![g] = "L324"]
    /\ UNCHANGED <<readers, writer, local, calls>>
    /\ UNCHANGED <<regVars, cfgVars>>

\* l.httpClientMu.Unlock(); if err != nil { return nil, err }
Unlock(g) ==
    /\ pc[g] = "L324"
    /\ writer' = NoProc
    /\ pc' = [pc EXCEPT ![g] = IF lerr[g] # "nil" THEN "idle" ELSE "L330"]
    /\ UNCHANGED <<httpClient, readers, local, lerr, visible, built, calls, access>>
    /\ UNCHANGED <<regVars, cfgVars>>

\* return l.httpClient.Do(req): the field is read again, with no lock held, so the
\* read observes any write not ordered before g's last synchronisation; calling
\* Do on a nil *http.Client with a well-formed request panics (nil dereference)
FinalDo(g) ==
    /\ pc[g] = "L330"
    /\ \E c \in visible[g] :
         pc' = [pc EXCEPT ![g] = IF c = Nil THEN "panic" ELSE "idle"]
    /\ access' = FieldAccess(g, "read")
    /\ UNCHANGED <<httpClient, readers, writer, local, lerr, visible, built, calls>>
    /\ UNCHANGED <<regVars, cfgVars>>

HTTPInit0 ==
    /\ httpClient = Nil
    /\ readers = {}
    /\ writer = NoProc
    /\ pc = [g \in Procs |-> "idle"]
    /\ local = [g \in Procs |-> Nil]
    /\ lerr = [g \in Procs |-> "nil"]
    /\ visible = [g \in Procs |-> {Nil}]
    /\ built = 0
    /\ calls = [g \in Procs |-> 0]
    /\ access = [proc |-> NoProc, op |-> "none", mode |-> "none"]

(***************************************************************************)
(* Calls on a Config                                                       *)
(***************************************************************************)
Hostnames == {"", "h1", "h2"}
ConfigKeys == {"protocol", "editor", "user"}
ConfigValues == {"ssh", ""}

NoCall == [op |-> "none", hostname |-> "", key |-> "", value |-> "",
           result |-> "", err |-> NilError]

CallGet(h, k) ==
    /\ last' = [op |-> "Get", hostname |-> h, key |-> k, value |-> "",
                result |-> Get(cfg, h, k).value, err |-> Get(cfg, h, k).err]
    /\ cfg' = cfg
    /\ UNCHANGED <<regVars, httpVars>>

CallSet(h, k, v) ==
    /\ last' = [op |-> "Set", hostname |-> h, key |-> k, value |-> v,
                result |-> "", err |-> Set(cfg, h, k, v).err]
    /\ cfg' = Set(cfg, h, k, v).cfg
    /\ UNCHANGED <<regVars, httpVars>>

CallUnsetHost(h) ==
    /\ last' = [op |-> "UnsetHost", hostname |-> h, key |-> "", value |-> "",
                result |-> "", err |-> NilError]
    /\ cfg' = UnsetHost(cfg, h)
    /\ UNCHANGED <<regVars, httpVars>>

\* no Config has been constructed
ConfigInit0 ==
    /\ cfg = NilNode
    /\ last = NoCall

(***************************************************************************)
(* Applications of the registry's functions                                *)
(***************************************************************************)
KeyInputs == {"protocol", "editor", "prompt", "pager", "http_unix_socket", "browser",
              "default_hostname", "", "hosts", "Protocol", "protocol ", "prompts",
              "git_protocol", "user"}
ValueInputs == {"https", "ssh", "enabled", "disabled", "", "HTTPS", "ftp", "enable",
                "vim", "https "}

CallValidateKey ==
    /\ fn' = "ValidateKey"
    /\ err' = ValidateKey(key)
    /\ UNCHANGED <<key, value, root>>
    /\ UNCHANGED <<cfgVars, httpVars>>

CallValidateValue ==
    /\ fn' = "ValidateValue"
    /\ err' = ValidateValue(key, value)
    /\ UNCHANGED <<key, value, root>>
    /\ UNCHANGED <<cfgVars, httpVars>>

CallNewBlankRoot ==
    /\ fn' = "NewBlankRoot"
    /\ root' = NewBlankRoot
    /\ UNCHANGED <<key, value, err>>
    /\ UNCHANGED <<cfgVars, httpVars>>

RegistryInit0 ==
    /\ fn = "none"
    /\ key = ""
    /\ value = ""
    /\ err = NilError
    /\ root = NilNode

(***************************************************************************)
(* Specifications                                                          *)
(***************************************************************************)
RegistryInit ==
    /\ fn = "none"
    /\ key \in KeyInputs
    /\ value \in ValueInputs
    /\ err = NilError
    /\ root = NilNode
    /\ ConfigInit0
    /\ HTTPInit0

RegistryNext ==
    \/ CallValidateKey
    \/ CallValidateValue
    \/ CallNewBlankRoot

RegistrySpec == RegistryInit /\ [][RegistryNext]_vars

ConfigInit ==
    /\ cfg \in {NewBlankConfig, NewFromString}
    /\ last = NoCall
    /\ RegistryInit0
    /\ HTTPInit0

ConfigNext ==
    \/ \E h \in Hostnames, k \in ConfigKeys : CallGet(h, k)
    \/ \E h \in Hostnames, k \in ConfigKeys, v \in ConfigValues : CallSet(h, k, v)
    \/ \E h \in Hostnames : CallUnsetHost(h)

ConfigSpec == ConfigInit /\ [][ConfigNext]_vars

HTTPInit ==
    /\ HTTPInit0
    /\ RegistryInit0
    /\ ConfigInit0

HTTPNext ==
    \E g \in Procs :
        \/ Call(g)
        \/ RLock(g) \/ ReadClient(g) \/ RUnlock(g)
        \/ Lock(g) \/ Construct(g) \/ Unlock(g)
        \/ FinalDo(g)

HTTPSpec == HTTPInit /\ [][HTTPNext]_vars

\* every goroutine inside Do keeps running, and sync.RWMutex starves neither
\* readers nor writers
HTTPFairSpec ==
    /\ HTTPSpec
    /\ \A g \in Procs :
         /\ WF_vars(ReadClient(g) \/ RUnlock(g) \/ Construct(g) \/ Unlock(g) \/ FinalDo(g))
         /\ SF_vars(RLock(g))
         /\ SF_vars(Lock(g))

(***************************************************************************)
(* Properties                                                              *)
(***************************************************************************)
Range(s) == {s[i] : i \in DOMAIN s}
OddIndexes(s) == {i \in DOMAIN s : i % 2 = 1}

\* the registry as the documentation states it
RegistryKeys == {"protocol", "editor", "prompt", "pager", "http_unix_socket",
                 "browser", "default_hostname"}
RegistryOrder == <<"protocol", "editor", "prompt", "pager", "http_unix_socket",
                   "browser", "default_hostname">>
\* the allowed values a key declares; the empty sequence when it declares none
ExpectedAllowed(k) ==
    IF k = "protocol" THEN <<"https", "ssh">>
    ELSE IF k = "prompt" THEN <<"enabled", "disabled">>
    ELSE <<>>
ExpectedDefault(k) ==
    IF k = "protocol" THEN "https"
    ELSE IF k = "prompt" THEN "enabled"
    ELSE ""

\* C1: ValidateKey(key) returns nil if and only if key is exactly one of the seven
\* registry keys; for every other string (the empty string and "hosts" included)
\* it returns the "invalid key" error.
C1_ValidateKeyIsMembership ==
    fn = "ValidateKey" =>
        /\ (err = NilError) <=> (key \in RegistryKeys)
        /\ (key \notin RegistryKeys) => (err = ErrorString("invalid key"))

C1_Witness ==
    /\ fn = "ValidateKey"
    /\ key = "hosts"
    /\ err = ErrorString("invalid key")

\* C2: for every key, registered or not, ValidateValue(key, value) returns nil
\* exactly when the key declares no allowed values or value is one of them;
\* otherwise it returns an InvalidValueError whose ValidValues are the key's
\* allowed values ([https, ssh] for protocol, [enabled, disabled] for prompt).
C2_ValidateValueIsMembership ==
    fn = "ValidateValue" =>
        LET allowed == ExpectedAllowed(key) IN
        IF key \notin RegistryKeys \/ allowed = <<>> \/ value \in Range(allowed)
        THEN err = NilError
        ELSE /\ err.type = "InvalidValueError"
             /\ err.ValidValues = StringSlice(allowed)

C2_Witness ==
    /\ fn = "ValidateValue"
    /\ key = "protocol"
    /\ value = "ftp"
    /\ err = InvalidValueError(StringSlice(<<"https", "ssh">>))

\* C5: the document NewBlankRoot builds is a mapping whose keys are exactly the
\* registry keys, once each and in the registry's order, each paired with the
\* key's DefaultValue and carrying a non-empty head comment; it has no hosts
\* entry.
C5_BlankDocumentMatchesRegistry ==
    fn = "NewBlankRoot" =>
        /\ root.Kind = "DocumentNode"
        /\ Len(root.Content) = 1
        /\ LET m == root.Content[1] IN
           /\ m.Kind = "MappingNode"
           /\ Len(m.Content) = 2 * Len(RegistryOrder)
           /\ Len(configOptions) = Len(RegistryOrder)
           /\ \A i \in DOMAIN RegistryOrder :
                /\ m.Content[2 * i - 1].Kind = "ScalarNode"
                /\ m.Content[2 * i - 1].Value = RegistryOrder[i]
                /\ m.Content[2 * i - 1].Value = configOptions[i].Key
                /\ m.Content[2 * i - 1].HeadComment # ""
                /\ m.Content[2 * i].Kind = "ScalarNode"
                /\ m.Content[2 * i].Value = configOptions[i].DefaultValue
           /\ \A i \in DOMAIN m.Content : m.Content[i].Value # "hosts"

C5_Witness ==
    /\ fn = "NewBlankRoot"
    /\ Len(root.Content) = 1
    /\ Len(root.Content[1].Content) = 14
    /\ root.Content[1].Content[5].Value = "prompt"
    /\ root.Content[1].Content[6].Value = "enabled"

\* C10: the registry is self-consistent: every registered key passes ValidateKey
\* and its DefaultValue passes ValidateValue (a key that declares allowed values
\* has a default among them), so every key/value pair of the blank document
\* passes both validators.
C10_RegistrySelfConsistent ==
    /\ \A i \in DOMAIN configOptions :
         /\ ValidateKey(configOptions[i].Key) = NilError
         /\ ValidateValue(configOptions[i].Key, configOptions[i].DefaultValue) = NilError
         /\ ~configOptions[i].AllowedValues.isNil =>
                configOptions[i].DefaultValue \in Range(configOptions[i].AllowedValues.elems)
    /\ (fn = "ValidateValue" /\ key \in RegistryKeys /\ value = ExpectedDefault(key))
           => err = NilError
    /\ root # NilNode =>
         \A i \in OddIndexes(root.Content[1].Content) :
            LET k == root.Content[1].Content[i].Value
                v == root.Content[1].Content[i + 1].Value
            IN  ValidateKey(k) = NilError /\ ValidateValue(k, v) = NilError

C10_Witness ==
    /\ root # NilNode
    /\ fn = "ValidateValue"
    /\ key = "prompt"
    /\ value = "enabled"
    /\ err = NilError

\* the value nodes stored under key k in the mappings of `maps`
ValuesAt(maps, k) ==
    UNION { { m.Content[i + 1] : i \in {j \in OddIndexes(m.Content) : m.Content[j].Value = k} }
            : m \in maps }
MappingsAt(maps, k) == {n \in ValuesAt(maps, k) : n.Kind = "MappingNode"}

\* the values a document holds for key k: for host h, and globally
HostValues(c, h, k) ==
    {n.Value : n \in ValuesAt(MappingsAt(MappingsAt({c.Content[1]}, "hosts"), h), k)}
GlobalValues(c, k) == {n.Value : n \in ValuesAt({c.Content[1]}, k)}

\* the resolution tiers: host, then global, then registry default, then NotFound
Resolved(c, h, k) ==
    IF h # "" /\ HostValues(c, h, k) # {}
    THEN [value |-> CHOOSE x \in HostValues(c, h, k) : TRUE, err |-> NilError]
    ELSE IF GlobalValues(c, k) # {}
    THEN [value |-> CHOOSE x \in GlobalValues(c, k) : TRUE, err |-> NilError]
    ELSE IF k \in RegistryKeys
    THEN [value |-> ExpectedDefault(k), err |-> NilError]
    ELSE [value |-> "", err |-> ErrorString("not found")]

\* a Set with these arguments must be refused
InvalidSet(k, v) ==
    \/ k \notin RegistryKeys
    \/ ExpectedAllowed(k) # <<>> /\ v \notin Range(ExpectedAllowed(k))

\* C3: Set is atomic with respect to validation: when the key is not in the
\* registry, or the key declares allowed values that do not contain the value,
\* Set returns the invalid-key or the invalid-value error respectively and the
\* document (global map, hosts and every host's map) is what it was before the
\* call: no host is created and every Get returns what it returned before.
C3_SetAtomicOnValidationFailure ==
    [][ (last'.op = "Set" /\ InvalidSet(last'.key, last'.value)) =>
          /\ (last'.key \notin RegistryKeys) => (last'.err = ErrorString("invalid key"))
          /\ (last'.key \in RegistryKeys) =>
                (last'.err = InvalidValueError(StringSlice(ExpectedAllowed(last'.key))))
          /\ cfg' = cfg
          /\ Hosts(cfg') = Hosts(cfg)
          /\ \A h \in Hostnames, k \in ConfigKeys : Get(cfg', h, k) = Get(cfg, h, k)
      ]_vars

C3_Witness ==
    /\ last.op = "Set"
    /\ last.hostname = "h2"
    /\ last.key = "protocol"
    /\ last.err = InvalidValueError(StringSlice(<<"https", "ssh">>))
    /\ Hosts(cfg) = <<"h1">>
    /\ Get(cfg, "h2", "protocol").value = "https"

\* C4: after any sequence of Set and UnsetHost calls Get resolves in tier order:
\* the host's value when the hostname is non-empty and that host has the key,
\* otherwise the global value, otherwise the registry default, otherwise
\* NotFound; and a host removed by UnsetHost resolves as if it never existed.
C4_GetResolvesInTierOrder ==
    /\ \A h \in Hostnames, k \in ConfigKeys : Get(cfg, h, k) = Resolved(cfg, h, k)
    /\ last.op = "Get" =>
         [value |-> last.result, err |-> last.err] = Resolved(cfg, last.hostname, last.key)
    /\ last.op = "UnsetHost" =>
         /\ last.hostname \notin Range(Hosts(cfg))
         /\ \A k \in ConfigKeys :
              /\ HostValues(cfg, last.hostname, k) = {}
              /\ Get(cfg, last.hostname, k) = Get(cfg, "", k)

C4_Witness ==
    /\ last.op = "UnsetHost"
    /\ last.hostname = "h1"
    /\ Hosts(cfg) = <<"h2">>
    /\ Get(cfg, "h2", "editor").value = "ssh"
    /\ Get(cfg, "h1", "editor").value = ""
    /\ Get(cfg, "h1", "protocol").value = "https"
    /\ GlobalValues(cfg, "protocol") = {}
    /\ Get(cfg, "h1", "user").err = NotFoundError

\* C6: for any number of goroutines calling Do concurrently on one instance,
\* factory.HTTPClient() is invoked successfully at most once.
C6_ConstructedAtMostOnce == built <= 1

\* C7: httpClientMu guards httpClient: every read of the field happens while the
\* reading goroutine holds the mutex (shared or exclusive) and every write while
\* the writer holds it exclusively, the read for the final httpClient.Do(req)
\* included.
C7_FieldAccessHoldsMutex ==
    /\ access.op = "read" => access.mode \in {"shared", "exclusive"}
    /\ access.op = "write" => access.mode = "exclusive"

\* C8: once a non-nil client is published in l.httpClient it never becomes nil
\* again, and no call to Do reaches the final httpClient.Do(req) with a nil
\* client.
C8_PublishedClientStaysNonNil ==
    [][ /\ httpClient # Nil => httpClient' # Nil
        /\ \A g \in Procs : pc'[g] # "panic"
      ]_vars

\* C9: under fair scheduling every call to Do eventually returns.
C9_EveryCallReturns ==
    \A g \in Procs : (pc[g] # "idle") ~> (pc[g] = "idle")

\* what remains of C9 on the code: every call leaves Do, by returning or by the
\* nil-client panic of the final call, and the mutex is free once no goroutine
\* is between a lock and its unlock
EveryCallLeavesDo ==
    \A g \in Procs : (pc[g] # "idle") ~> (pc[g] \in {"idle", "panic"})
MutexReleasedOnEveryPath ==
    /\ writer = NoProc <=> \A g \in Procs : pc[g] \notin {"L323", "L324"}
    /\ \A g \in Procs : g \in readers <=> pc[g] \in {"L317", "L318"}

====
